---- MODULE Spec2Model ----
(***************************************************************************)
(* Model of 2a-etl_spark_merge_staging_tables.ipynb: the set-up of the     *)
(* output directory, the three loaders, the four left-outer joins with     *)
(* their prefix renames, the zero fill, the column pruning and the         *)
(* partitioned write.                                                      *)
(*                                                                         *)
(* A DataFrame is [cols, rows].  A column is [name, type, tbl, orig,       *)
(* join]: name and type are what Spark's schema holds; tbl, orig and join  *)
(* stand for the identity (exprId) Spark gives an attribute, i.e. the     *)
(* table and column it was read from and the join (1..4, 0 for the flight  *)
(* table) that brought it in.  A row is [fid, v]: v is the sequence of     *)
(* cell values, fid the position of the row in the table it was read from  *)
(* (for a joined row: of its flight row).                                  *)
(***************************************************************************)
EXTENDS Integers, Sequences, FiniteSets, TLC

VARIABLES pc, run, etl_output_dir, staging, arpt_demand, arpt_weather,
          nas_flights, nas_flights_mg, rmtree_failed, failed_at, last_output

vars == <<pc, run, etl_output_dir, staging, arpt_demand, arpt_weather,
          nas_flights, nas_flights_mg, rmtree_failed, failed_at, last_output>>

(***************************************************************************)
(* Bounds of the model.                                                    *)
(***************************************************************************)
MaxRuns == 2
MaxFlights == 2
MaxAttrRows == 2

(***************************************************************************)
(* Values.                                                                 *)
(***************************************************************************)
Null == "null"
Zero == "0"

Range(s) == {s[i] : i \in DOMAIN s}

SeqToBag(s) == [x \in Range(s) |-> Cardinality({i \in DOMAIN s : s[i] = x})]

EmptyDF == [cols |-> <<>>, rows |-> <<>>]

ColumnNames(df) == [i \in DOMAIN df.cols |-> df.cols[i].name]

\* df[name]: the positions of the columns called name; Spark resolves the
\* reference when there is exactly one and raises AnalysisException otherwise.
Resolve(df, name) == {i \in DOMAIN df.cols : df.cols[i].name = name}

Resolvable(df, name) == Cardinality(Resolve(df, name)) = 1

ColIndex(df, name) == CHOOSE i \in Resolve(df, name) : TRUE

(***************************************************************************)
(* DataFrame.drop of names: every column whose name is listed goes, the    *)
(* others keep their order; a name that matches nothing is ignored.        *)
(***************************************************************************)
KeptIdx(df, names) ==
    SelectSeq([i \in DOMAIN df.cols |-> i], LAMBDA i : df.cols[i].name \notin names)

Drop(df, names) ==
    LET keep == KeptIdx(df, names)
    IN  [cols |-> [k \in DOMAIN keep |-> df.cols[keep[k]]],
         rows |-> [r \in DOMAIN df.rows |->
                     [fid |-> df.rows[r].fid,
                      v   |-> [k \in DOMAIN keep |-> df.rows[r].v[keep[k]]]]]]

(***************************************************************************)
(* DataFrame.withColumnRenamed(existing, new): every column called         *)
(* existing is renamed, a no-op when there is none.                        *)
(***************************************************************************)
WithColumnRenamed(df, existing, new) ==
    [df EXCEPT !.cols = [i \in DOMAIN df.cols |->
        IF df.cols[i].name = existing
        THEN [df.cols[i] EXCEPT !.name = new]
        ELSE df.cols[i]]]

\* The loop of add_col_prefix over col_rename_map, one rename after the other.
RECURSIVE RenameEach(_, _, _)
RenameEach(df, names, prefix) ==
    IF names = <<>> THEN df
    ELSE RenameEach(WithColumnRenamed(df, Head(names), prefix \o Head(names)),
                    Tail(names), prefix)

add_col_prefix(df, update_col_names, prefix, ignore_cols) ==
    LET cols_with_prefix == SelectSeq(update_col_names, LAMBDA cc : cc \notin ignore_cols)
    IN  RenameEach(df, cols_with_prefix, prefix)

(***************************************************************************)
(* left.join(right, (left[on[1]] == right[on[2]]) & (left[on[3]] ==        *)
(* right[on[4]]), 'left').  The four column references are resolved when   *)
(* the condition is built.  An equality on a null is not true, so a null   *)
(* key matches nothing.  A left row is paired with each right row that     *)
(* matches; with none, it is kept once with nulls in the right's columns.  *)
(***************************************************************************)
JoinResolves(left, right, on) ==
    /\ Resolvable(left, on[1])
    /\ Resolvable(right, on[2])
    /\ Resolvable(left, on[3])
    /\ Resolvable(right, on[4])

EqualTo(a, b) == a # Null /\ b # Null /\ a = b

Matches(l, r, left, right, on) ==
    /\ EqualTo(l.v[ColIndex(left, on[1])], r.v[ColIndex(right, on[2])])
    /\ EqualTo(l.v[ColIndex(left, on[3])], r.v[ColIndex(right, on[4])])

NullCells(n) == [i \in 1..n |-> Null]

\* Variant: how='inner', the row that matches nothing is lost.
UnmatchedInner(l, n) == <<>>

\* 'left': the row of the left table that matches nothing.
Unmatched(l, n) == <<[fid |-> l.fid, v |-> l.v \o NullCells(n)]>>

RECURSIVE JoinRows(_, _, _, _)
JoinRows(lrows, left, right, on) ==
    IF lrows = <<>> THEN <<>>
    ELSE LET l == Head(lrows)
             m == SelectSeq(right.rows, LAMBDA r : Matches(l, r, left, right, on))
         IN  (IF m = <<>>
              THEN Unmatched(l, Len(right.cols))
              ELSE [i \in DOMAIN m |-> [fid |-> l.fid, v |-> l.v \o m[i].v]])
             \o JoinRows(Tail(lrows), left, right, on)

LeftJoin(left, right, on, j) ==
    [cols |-> left.cols \o [i \in DOMAIN right.cols |-> [right.cols[i] EXCEPT !.join = j]],
     rows |-> JoinRows(left.rows, left, right, on)]

(***************************************************************************)
(* DataFrame.fillna(0, subset): each name of subset is resolved (an        *)
(* ambiguous or unknown name raises AnalysisException); the nulls of the   *)
(* resolved columns of a numeric type become 0, columns of another type    *)
(* are left as they are.                                                   *)
(***************************************************************************)
FillNaResolves(df, subset) == \A i \in DOMAIN subset : Resolvable(df, subset[i])

\* Variant: fillna(0) without subset, every numeric column is filled.
FillNaAll(df, value, subset) ==
    [df EXCEPT !.rows = [r \in DOMAIN df.rows |->
        [df.rows[r] EXCEPT !.v = [i \in DOMAIN df.cols |->
            IF df.cols[i].type = "num" /\ df.rows[r].v[i] = Null
            THEN value ELSE df.rows[r].v[i]]]]]

FillNa(df, value, subset) ==
    [df EXCEPT !.rows = [r \in DOMAIN df.rows |->
        [df.rows[r] EXCEPT !.v = [i \in DOMAIN df.cols |->
            IF /\ df.cols[i].name \in Range(subset)
               /\ df.cols[i].type = "num"
               /\ df.rows[r].v[i] = Null
            THEN value ELSE df.rows[r].v[i]]]]]

(***************************************************************************)
(* df.write.mode('overwrite').partitionBy('YYYYMM').parquet(path).  The    *)
(* writer refuses a schema with two columns of one name, a partition       *)
(* column that is not in the schema, and a schema of partition columns     *)
(* only; it refuses before it touches the path.  'overwrite' replaces      *)
(* whatever the path holds by one directory per value of YYYYMM.           *)
(***************************************************************************)
Writable(df) ==
    /\ \A i, k \in DOMAIN df.cols : df.cols[i].name = df.cols[k].name => i = k
    /\ Resolvable(df, "YYYYMM")
    /\ Len(df.cols) > 1

Partition(df, m) ==
    LET data  == Drop(df, {"YYYYMM"})
        y     == ColIndex(df, "YYYYMM")
        which == SelectSeq([r \in DOMAIN df.rows |-> r], LAMBDA r : df.rows[r].v[y] = m)
    IN  [YYYYMM |-> m,
         cols   |-> ColumnNames(data),
         rows   |-> SeqToBag([k \in DOMAIN which |-> data.rows[which[k]].v])]

Partitions(df) ==
    {Partition(df, m) : m \in {df.rows[r].v[ColIndex(df, "YYYYMM")] : r \in DOMAIN df.rows}}

\* Variant: mode('ignore'), a path that exists is left as it is.
WriteIgnore(dir, df) == dir

WriteOverwrite(dir, df) == [exists |-> TRUE, parts |-> Partitions(df)]

(***************************************************************************)
(* The output directory: whether it exists and the partitions it holds.    *)
(***************************************************************************)
NoDir == [exists |-> FALSE, parts |-> {}]

\* os.makedirs(etl_output_dir, exist_ok = True)
Makedirs(dir) == IF dir.exists THEN dir ELSE [exists |-> TRUE, parts |-> {}]

\* shutil.rmtree(etl_output_dir) when it returns.
Rmtree(dir) == NoDir

\* shutil.rmtree(etl_output_dir) when it raises: the directory itself is the
\* last thing rmtree removes, so it is still there, with what was not deleted.
RmtreeRaised(dir) == {[exists |-> TRUE, parts |-> left] : left \in SUBSET dir.parts}

\* Variant: a mkdir that accepts a directory that exists.
MkdirExistOk(dir) == FALSE

\* os.mkdir(etl_output_dir) raises FileExistsError on a directory that exists.
MkdirRaises(dir) == dir.exists

Mkdir(dir) == IF dir.exists THEN dir ELSE [exists |-> TRUE, parts |-> {}]

(***************************************************************************)
(* Names the notebook uses.                                                *)
(***************************************************************************)
drop_meta_cols == <<"__null_dask_index__", "__index_level_0__">>

\* Variant: the origin join keyed on DEST.
origin_demand_on_dest == <<"DEST", "ARPT_NAME", "DEP_TIME_DT_LOCAL_QTHR", "DT_LOCAL_QTHR">>

origin_demand_on == <<"ORIGIN", "ARPT_NAME", "DEP_TIME_DT_LOCAL_QTHR", "DT_LOCAL_QTHR">>

dest_demand_on == <<"DEST", "ARPT_NAME", "ARR_TIME_DT_LOCAL_QTHR", "DT_LOCAL_QTHR">>

origin_weather_on == <<"ORIGIN", "ARPT_NAME", "DEP_TIME_DT_LOCAL_HR", "DT_LOCAL_HR">>

dest_weather_on == <<"DEST", "ARPT_NAME", "ARR_TIME_DT_LOCAL_HR", "DT_LOCAL_HR">>

demand_keys == {"ARPT_NAME", "DT_LOCAL_QTHR"}

weather_keys == {"ARPT_NAME", "DT_LOCAL_HR"}

Prefixed(prefixes, names) ==
    [k \in 1..(Len(prefixes) * Len(names)) |->
        prefixes[((k - 1) \div Len(names)) + 1] \o names[((k - 1) % Len(names)) + 1]]

\* Variant: the subset built for the prefix ORIGIN_ alone.
arpt_demand_attr_cols_origin ==
    Prefixed(<<"ORIGIN_">>,
             SelectSeq(ColumnNames(arpt_demand),
                       LAMBDA cc : cc \notin {"YEAR", "ARPT_NAME", "DT_LOCAL_QTHR"}))

arpt_demand_attr_cols ==
    Prefixed(<<"ORIGIN_", "DEST_">>,
             SelectSeq(ColumnNames(arpt_demand),
                       LAMBDA cc : cc \notin {"YEAR", "ARPT_NAME", "DT_LOCAL_QTHR"}))

\* Variant: no prefixed bucket column is removed.
od_remove_cols_none == <<>>

od_remove_cols == Prefixed(<<"ORIGIN_", "DEST_">>, <<"DT_LOCAL_QTHR", "DT_LOCAL_HR">>)

ad_remove_cols ==
    Prefixed(<<"ARR_", "DEP_">>,
             <<"TIME_DT_LOCAL", "TIME_DT_LOCAL_DAY", "TIME_DT_LOCAL_HR", "TIME_DT_LOCAL_QTHR">>)

(***************************************************************************)
(* The staging tables the notebook reads.  They are written by the earlier *)
(* notebooks and only read here, so the model draws them once, in Init.    *)
(* A cell of an attribute column holds a value that names its table, row   *)
(* and column, so that a value found in the merged table tells where it    *)
(* came from.                                                              *)
(***************************************************************************)
Col(name, type, tbl) ==
    [name |-> name, type |-> type, tbl |-> tbl, orig |-> name, join |-> 0]

Attr(name, type) == [name |-> name, type |-> type]

Cell(tbl, i, name) == tbl \o "[" \o ToString(i) \o "]." \o name

\* The hour bucket of a quarter-hour bucket.
Hour(t) == CASE t = "00:00" -> "00:00" [] t = "01:15" -> "01:00" [] OTHER -> Null

Day(t) == IF t = Null THEN Null ELSE "2020-01-01"

FlightKinds ==
    << [origin |-> "JFK", dest |-> "LAX", dep |-> "00:00", arr |-> "01:15", month |-> "202001"],
       [origin |-> "LAX", dest |-> "JFK", dep |-> "01:15", arr |-> Null, month |-> "202002"] >>

DemandKinds ==
    << [arpt |-> "JFK", bucket |-> "00:00", valued |-> TRUE],
       [arpt |-> "LAX", bucket |-> "01:15", valued |-> TRUE],
       [arpt |-> "JFK", bucket |-> "00:00", valued |-> FALSE] >>

WeatherKinds ==
    << [arpt |-> "JFK", bucket |-> "00:00", valued |-> TRUE],
       [arpt |-> "LAX", bucket |-> "01:00", valued |-> TRUE],
       [arpt |-> "JFK", bucket |-> "00:00", valued |-> FALSE] >>

FlightTable(ks, extras) ==
    [cols |-> << Col("ORIGIN", "str", "nas_flights"), Col("DEST", "str", "nas_flights"),
                 Col("YEAR", "num", "nas_flights"), Col("YYYYMM", "str", "nas_flights"),
                 Col("DEP_TIME_DT_LOCAL", "ts", "nas_flights"),
                 Col("DEP_TIME_DT_LOCAL_DAY", "ts", "nas_flights"),
                 Col("DEP_TIME_DT_LOCAL_HR", "ts", "nas_flights"),
                 Col("DEP_TIME_DT_LOCAL_QTHR", "ts", "nas_flights"),
                 Col("ARR_TIME_DT_LOCAL", "ts", "nas_flights"),
                 Col("ARR_TIME_DT_LOCAL_DAY", "ts", "nas_flights"),
                 Col("ARR_TIME_DT_LOCAL_HR", "ts", "nas_flights"),
                 Col("ARR_TIME_DT_LOCAL_QTHR", "ts", "nas_flights"),
                 Col("__index_level_0__", "num", "nas_flights") >>
              \o [e \in DOMAIN extras |-> Col(extras[e].name, extras[e].type, "nas_flights")],
     rows |-> [i \in DOMAIN ks |->
                 LET k == FlightKinds[ks[i]]
                 IN  [fid |-> i,
                      v   |-> << k.origin, k.dest, "2020", k.month,
                                 k.dep, Day(k.dep), Hour(k.dep), k.dep,
                                 k.arr, Day(k.arr), Hour(k.arr), k.arr,
                                 ToString(i) >>
                              \o [e \in DOMAIN extras |-> Cell("nas_flights", i, extras[e].name)]]]]

AttrCells(tbl, i, attrs, valued) ==
    [e \in DOMAIN attrs |-> IF valued THEN Cell(tbl, i, attrs[e].name) ELSE Null]

DemandTable(ks, attrs) ==
    [cols |-> << Col("ARPT_NAME", "str", "arpt_demand"), Col("DT_LOCAL_QTHR", "ts", "arpt_demand"),
                 Col("YEAR", "num", "arpt_demand"), Col("__null_dask_index__", "num", "arpt_demand") >>
              \o [e \in DOMAIN attrs |-> Col(attrs[e].name, attrs[e].type, "arpt_demand")],
     rows |-> [i \in DOMAIN ks |->
                 LET k == DemandKinds[ks[i]]
                 IN  [fid |-> i,
                      v   |-> << k.arpt, k.bucket, "2020", ToString(i) >>
                              \o AttrCells("arpt_demand", i, attrs, k.valued)]]]

WeatherTable(ks, attrs) ==
    [cols |-> << Col("ARPT_NAME", "str", "arpt_weather"), Col("DT_LOCAL_HR", "ts", "arpt_weather"),
                 Col("YEAR", "num", "arpt_weather") >>
              \o [e \in DOMAIN attrs |-> Col(attrs[e].name, attrs[e].type, "arpt_weather")],
     rows |-> [i \in DOMAIN ks |->
                 LET k == WeatherKinds[ks[i]]
                 IN  [fid |-> i,
                      v   |-> << k.arpt, k.bucket, "2020" >>
                              \o AttrCells("arpt_weather", i, attrs, k.valued)]]]

\* The tables of at most k rows drawn from n kinds of row, each once whatever
\* the order of its rows (a table has no row order).
Tables(n, k) ==
    {s \in UNION {[1..m -> 1..n] : m \in 0..k} : \A i \in 1..(Len(s) - 1) : s[i] <= s[i + 1]}

Staged(fk, fx, dk, da, wk, wa) ==
    [nas_flights  |-> FlightTable(fk, fx),
     arpt_demand  |-> DemandTable(dk, da),
     arpt_weather |-> WeatherTable(wk, wa)]

FlightExtraChoices == { <<>>, <<Attr("A", "num")>>, <<Attr("W", "num")>> }

DemandAttrChoices ==
    { <<Attr("A", "num")>>,
      <<Attr("A", "num"), Attr("C", "str"), Attr("DT_LOCAL_HR", "ts")>> }

WeatherAttrChoices == { <<Attr("W", "num")>>, <<Attr("A", "num")>>, <<Attr("DEST", "str")>> }

\* Under the plain schema: every flight table with every demand table beside
\* the weather table of rows 1 and 2, and with every weather table beside the
\* demand table of rows 1 and 2 (the demand and the weather joins read
\* nothing of each other).
StagedData ==
    {Staged(fk, <<>>, dk, <<Attr("A", "num")>>, <<1, 2>>, <<Attr("W", "num")>>) :
        fk \in Tables(Len(FlightKinds), MaxFlights),
        dk \in Tables(Len(DemandKinds), MaxAttrRows)}
    \cup
    {Staged(fk, <<>>, <<1, 2>>, <<Attr("A", "num")>>, wk, <<Attr("W", "num")>>) :
        fk \in Tables(Len(FlightKinds), MaxFlights),
        wk \in Tables(Len(WeatherKinds), MaxAttrRows)}

\* Every schema over one flight, one demand row and one weather row.
StagedSchemas ==
    {Staged(<<1>>, fx, <<1>>, da, <<1>>, wa) :
        fx \in FlightExtraChoices, da \in DemandAttrChoices, wa \in WeatherAttrChoices}

StaleDir ==
    [exists |-> TRUE,
     parts  |-> {[YYYYMM |-> "199912", cols |-> <<"ORIGIN">>, rows |-> SeqToBag(<< <<"SFO">> >>)]}]

(***************************************************************************)
(* The state machine.  pc names the statement that runs next.  A statement *)
(* that raises ends the run ("failed", failed_at names the statement):     *)
(* the cells after it are not run.  Building the Spark session and the     *)
(* prints of spark_shape change nothing the model holds and are left out.  *)
(* The notebook is run again from the top by NewRun, on the staging tables *)
(* and the output directory the last run left.  last_output holds the      *)
(* output directory as the last run that reached the end left it (the      *)
(* empty set when there was none).                                         *)
(***************************************************************************)
Init ==
    /\ pc = "makedirs"
    /\ run = 1
    /\ etl_output_dir \in {NoDir, StaleDir}
    /\ staging \in StagedData \cup StagedSchemas
    /\ arpt_demand = EmptyDF
    /\ arpt_weather = EmptyDF
    /\ nas_flights = EmptyDF
    /\ nas_flights_mg = EmptyDF
    /\ rmtree_failed = FALSE
    /\ failed_at = "none"
    /\ last_output = {}

Goto(next) == pc' = next /\ failed_at' = failed_at

Raise == pc' = "failed" /\ failed_at' = pc

\* os.makedirs(etl_output_dir, exist_ok = True)
DoMakedirs ==
    /\ pc = "makedirs"
    /\ etl_output_dir' = Makedirs(etl_output_dir)
    /\ Goto("rmtree")
    /\ UNCHANGED <<run, staging, arpt_demand, arpt_weather, nas_flights, nas_flights_mg,
                   rmtree_failed, last_output>>

\* try: shutil.rmtree(etl_output_dir)
DoRmtree ==
    /\ pc = "rmtree"
    /\ etl_output_dir' = Rmtree(etl_output_dir)
    /\ Goto("mkdir")
    /\ UNCHANGED <<run, staging, arpt_demand, arpt_weather, nas_flights, nas_flights_mg,
                   rmtree_failed, last_output>>

\* except: pass
DoRmtreeRaised ==
    /\ pc = "rmtree"
    /\ etl_output_dir' \in RmtreeRaised(etl_output_dir)
    /\ rmtree_failed' = TRUE
    /\ Goto("mkdir")
    /\ UNCHANGED <<run, staging, arpt_demand, arpt_weather, nas_flights, nas_flights_mg,
                   last_output>>

\* os.mkdir(etl_output_dir)
DoMkdir ==
    /\ pc = "mkdir"
    /\ IF MkdirRaises(etl_output_dir)
       THEN Raise /\ UNCHANGED etl_output_dir
       ELSE Goto("read_arpt_demand") /\ etl_output_dir' = Mkdir(etl_output_dir)
    /\ UNCHANGED <<run, staging, arpt_demand, arpt_weather, nas_flights, nas_flights_mg,
                   rmtree_failed, last_output>>

\* arpt_demand = spark.read.parquet(staging_dir+'arpt_demand').drop(*drop_meta_cols, 'YEAR')
ReadArptDemand ==
    /\ pc = "read_arpt_demand"
    /\ \E readable \in BOOLEAN :
          IF readable
          THEN /\ arpt_demand' = Drop(staging.arpt_demand, Range(drop_meta_cols) \cup {"YEAR"})
               /\ Goto("read_arpt_weather")
          ELSE Raise /\ UNCHANGED arpt_demand
    /\ UNCHANGED <<run, etl_output_dir, staging, arpt_weather, nas_flights, nas_flights_mg,
                   rmtree_failed, last_output>>

\* arpt_weather = spark.read.parquet(staging_dir+'arpt_weather').drop(*drop_meta_cols, 'YEAR')
ReadArptWeather ==
    /\ pc = "read_arpt_weather"
    /\ \E readable \in BOOLEAN :
          IF readable
          THEN /\ arpt_weather' = Drop(staging.arpt_weather, Range(drop_meta_cols) \cup {"YEAR"})
               /\ Goto("read_nas_flights")
          ELSE Raise /\ UNCHANGED arpt_weather
    /\ UNCHANGED <<run, etl_output_dir, staging, arpt_demand, nas_flights, nas_flights_mg,
                   rmtree_failed, last_output>>

\* nas_flights = spark.read.parquet(staging_dir+'nas_flights').drop(*drop_meta_cols)
ReadNasFlights ==
    /\ pc = "read_nas_flights"
    /\ \E readable \in BOOLEAN :
          IF readable
          THEN /\ nas_flights' = Drop(staging.nas_flights, Range(drop_meta_cols))
               /\ Goto("join_origin_demand")
          ELSE Raise /\ UNCHANGED nas_flights
    /\ UNCHANGED <<run, etl_output_dir, staging, arpt_demand, arpt_weather, nas_flights_mg,
                   rmtree_failed, last_output>>

\* left.join(right, <on>, 'left').drop(<keys>) assigned to nas_flights_mg
JoinStep(at, next, left, right, on, keys, j) ==
    /\ pc = at
    /\ IF JoinResolves(left, right, on)
       THEN /\ nas_flights_mg' = Drop(LeftJoin(left, right, on, j), keys)
            /\ Goto(next)
       ELSE Raise /\ UNCHANGED nas_flights_mg
    /\ UNCHANGED <<run, etl_output_dir, staging, arpt_demand, arpt_weather, nas_flights,
                   rmtree_failed, last_output>>

\* nas_flights_mg = add_col_prefix(nas_flights_mg, right.columns, prefix, <keys>)
PrefixStep(at, next, right, prefix, keys) ==
    /\ pc = at
    /\ nas_flights_mg' = add_col_prefix(nas_flights_mg, ColumnNames(right), prefix, keys)
    /\ Goto(next)
    /\ UNCHANGED <<run, etl_output_dir, staging, arpt_demand, arpt_weather, nas_flights,
                   rmtree_failed, last_output>>

JoinOriginDemand ==
    JoinStep("join_origin_demand", "prefix_origin_demand",
             nas_flights, arpt_demand, origin_demand_on, demand_keys, 1)

PrefixOriginDemand ==
    PrefixStep("prefix_origin_demand", "join_dest_demand", arpt_demand, "ORIGIN_", demand_keys)

JoinDestDemand ==
    JoinStep("join_dest_demand", "prefix_dest_demand",
             nas_flights_mg, arpt_demand, dest_demand_on, demand_keys, 2)

PrefixDestDemand ==
    PrefixStep("prefix_dest_demand", "join_origin_weather", arpt_demand, "DEST_", demand_keys)

JoinOriginWeather ==
    JoinStep("join_origin_weather", "prefix_origin_weather",
             nas_flights_mg, arpt_weather, origin_weather_on, weather_keys, 3)

PrefixOriginWeather ==
    PrefixStep("prefix_origin_weather", "join_dest_weather", arpt_weather, "ORIGIN_", weather_keys)

JoinDestWeather ==
    JoinStep("join_dest_weather", "prefix_dest_weather",
             nas_flights_mg, arpt_weather, dest_weather_on, weather_keys, 4)

PrefixDestWeather ==
    PrefixStep("prefix_dest_weather", "fillna", arpt_weather, "DEST_", weather_keys)

\* nas_flights_mg = nas_flights_mg.fillna(0, subset=arpt_demand_attr_cols)
DoFillna ==
    /\ pc = "fillna"
    /\ IF FillNaResolves(nas_flights_mg, arpt_demand_attr_cols)
       THEN /\ nas_flights_mg' = FillNa(nas_flights_mg, Zero, arpt_demand_attr_cols)
            /\ Goto("drop")
       ELSE Raise /\ UNCHANGED nas_flights_mg
    /\ UNCHANGED <<run, etl_output_dir, staging, arpt_demand, arpt_weather, nas_flights,
                   rmtree_failed, last_output>>

\* nas_flights_mg = nas_flights_mg.drop(*(ad_remove_cols + od_remove_cols))
DoDrop ==
    /\ pc = "drop"
    /\ nas_flights_mg' = Drop(nas_flights_mg, Range(ad_remove_cols \o od_remove_cols))
    /\ Goto("write")
    /\ UNCHANGED <<run, etl_output_dir, staging, arpt_demand, arpt_weather, nas_flights,
                   rmtree_failed, last_output>>

\* nas_flights_mg.coalesce(4).write.mode('overwrite').partitionBy('YYYYMM').parquet(etl_output_dir)
DoWrite ==
    /\ pc = "write"
    /\ IF Writable(nas_flights_mg)
       THEN /\ etl_output_dir' = WriteOverwrite(etl_output_dir, nas_flights_mg)
            /\ Goto("done")
       ELSE Raise /\ UNCHANGED etl_output_dir
    /\ UNCHANGED <<run, staging, arpt_demand, arpt_weather, nas_flights, nas_flights_mg,
                   rmtree_failed, last_output>>

\* The notebook is run again, in a fresh kernel.
NewRun ==
    /\ pc \in {"done", "failed"}
    /\ run < MaxRuns
    /\ run' = run + 1
    /\ pc' = "makedirs"
    /\ failed_at' = "none"
    /\ rmtree_failed' = FALSE
    /\ last_output' = IF pc = "done" THEN {etl_output_dir} ELSE last_output
    /\ arpt_demand' = EmptyDF
    /\ arpt_weather' = EmptyDF
    /\ nas_flights' = EmptyDF
    /\ nas_flights_mg' = EmptyDF
    /\ UNCHANGED <<etl_output_dir, staging>>

Next ==
    \/ DoMakedirs
    \/ DoRmtree
    \/ DoRmtreeRaised
    \/ DoMkdir
    \/ ReadArptDemand
    \/ ReadArptWeather
    \/ ReadNasFlights
    \/ JoinOriginDemand
    \/ PrefixOriginDemand
    \/ JoinDestDemand
    \/ PrefixDestDemand
    \/ JoinOriginWeather
    \/ PrefixOriginWeather
    \/ JoinDestWeather
    \/ PrefixDestWeather
    \/ DoFillna
    \/ DoDrop
    \/ DoWrite
    \/ NewRun

Spec == Init /\ [][Next]_vars

(***************************************************************************)
(* Properties.                                                             *)
(***************************************************************************)
\* nas_flights_mg holds the result of the four joins and their renames.
Merged == pc \in {"fillna", "drop", "write", "done"}

\* nas_flights_mg holds the table that is written.
Final == pc \in {"write", "done"}

RowsOfFlight(df, f) == {r \in DOMAIN df.rows : df.rows[r].fid = f}

ValueAt(df, r, name) == df.rows[r].v[ColIndex(df, name)]

\* No two rows of the attribute table share a key (airport, bucket).
UniqueKeys(df, bucket) ==
    \A r, s \in DOMAIN df.rows :
        (/\ ValueAt(df, r, "ARPT_NAME") = ValueAt(df, s, "ARPT_NAME")
         /\ ValueAt(df, r, bucket) = ValueAt(df, s, bucket)) => r = s

\* C1 as stated: after the four left-outer joins each row of the flight table
\* is in the merged table exactly once, whatever the demand and weather
\* tables hold, so the merged table has as many rows as the flight table.
C1_EveryFlightExactlyOnce ==
    Merged =>
        /\ Len(nas_flights_mg.rows) = Len(nas_flights.rows)
        /\ \A f \in DOMAIN nas_flights.rows :
              Cardinality(RowsOfFlight(nas_flights_mg, f)) = 1

\* C1 amended: after the four joins no row of the flight table is missing from
\* the merged table, every merged row is a flight row's, and when no two
\* demand rows share (ARPT_NAME, DT_LOCAL_QTHR) and no two weather rows share
\* (ARPT_NAME, DT_LOCAL_HR) each flight row is there exactly once.
C1_FlightRowsKept ==
    Merged =>
        /\ \A f \in DOMAIN nas_flights.rows : RowsOfFlight(nas_flights_mg, f) # {}
        /\ \A r \in DOMAIN nas_flights_mg.rows :
              nas_flights_mg.rows[r].fid \in DOMAIN nas_flights.rows
        /\ (UniqueKeys(arpt_demand, "DT_LOCAL_QTHR") /\ UniqueKeys(arpt_weather, "DT_LOCAL_HR"))
              => /\ Len(nas_flights_mg.rows) = Len(nas_flights.rows)
                 /\ \A f \in DOMAIN nas_flights.rows :
                       Cardinality(RowsOfFlight(nas_flights_mg, f)) = 1

\* A run that wrote a flight with a demand row at its origin and no weather
\* row at its destination, from tables of two rows each with distinct keys.
C1_Witness ==
    /\ pc = "done"
    /\ Len(nas_flights.rows) >= 1
    /\ Len(arpt_demand.rows) = 2 /\ UniqueKeys(arpt_demand, "DT_LOCAL_QTHR")
    /\ Len(arpt_weather.rows) = 2 /\ UniqueKeys(arpt_weather, "DT_LOCAL_HR")
    /\ \E r \in DOMAIN nas_flights_mg.rows :
          /\ ValueAt(nas_flights_mg, r, "ORIGIN_A") # Zero
          /\ ValueAt(nas_flights_mg, r, "DEST_W") = Null

\* The statement that runs next, or the one that raised.
At == IF pc = "failed" THEN failed_at ELSE pc

Statements ==
    << "makedirs", "rmtree", "mkdir",
       "read_arpt_demand", "read_arpt_weather", "read_nas_flights",
       "join_origin_demand", "prefix_origin_demand",
       "join_dest_demand", "prefix_dest_demand",
       "join_origin_weather", "prefix_origin_weather",
       "join_dest_weather", "prefix_dest_weather",
       "fillna", "drop", "write", "done" >>

Pos(st) == CHOOSE i \in DOMAIN Statements : Statements[i] = st

\* Join j (1 origin demand, 2 destination demand, 3 origin weather,
\* 4 destination weather) has run; its rename has run; the fill has run.
Joined(j) == Pos(At) >= Pos("join_origin_demand") + 2 * j - 1

Renamed(j) == Pos(At) >= Pos("join_origin_demand") + 2 * j

Filled == Pos(At) > Pos("fillna")

SameKey(a, b) == a # Null /\ a = b

\* The rows of attribute table T whose airport is the flight's fa and whose
\* bucket is the flight's fb, for flight row f.
Sources(T, f, fa, fb, bucket) ==
    {s \in DOMAIN T.rows :
        /\ SameKey(ValueAt(nas_flights, f, fa), ValueAt(T, s, "ARPT_NAME"))
        /\ SameKey(ValueAt(nas_flights, f, fb), ValueAt(T, s, bucket))}

JoinTable(j) == IF j \in {1, 2} THEN arpt_demand ELSE arpt_weather

JoinPrefix(j) == IF j \in {1, 3} THEN "ORIGIN_" ELSE "DEST_"

JoinSources(j, f) ==
    CASE j = 1 -> Sources(arpt_demand, f, "ORIGIN", "DEP_TIME_DT_LOCAL_QTHR", "DT_LOCAL_QTHR")
      [] j = 2 -> Sources(arpt_demand, f, "DEST", "ARR_TIME_DT_LOCAL_QTHR", "DT_LOCAL_QTHR")
      [] j = 3 -> Sources(arpt_weather, f, "ORIGIN", "DEP_TIME_DT_LOCAL_HR", "DT_LOCAL_HR")
      [] j = 4 -> Sources(arpt_weather, f, "DEST", "ARR_TIME_DT_LOCAL_HR", "DT_LOCAL_HR")

JoinCols(j) == {i \in DOMAIN nas_flights_mg.cols : nas_flights_mg.cols[i].join = j}

\* The value of the cell's column in row s of the attribute table it was read from.
SourceCell(j, s, i) ==
    JoinTable(j).rows[s].v[ColIndex(JoinTable(j), nas_flights_mg.cols[i].orig)]

AttrNames(df, keys) == {df.cols[i].name : i \in DOMAIN df.cols} \ keys

NumericAttrNames(df, keys) ==
    {df.cols[i].name : i \in {k \in DOMAIN df.cols : df.cols[k].type = "num"}} \ keys

\* C2 as stated: in the output no column ORIGIN_X or DEST_X of a demand
\* attribute column X holds a null, and a flight with no demand row for its
\* origin (destination) and departure (arrival) quarter hour has 0 in every
\* ORIGIN_X (DEST_X).
C2_NoNullDemandColumn ==
    pc = "done" =>
        \A X \in AttrNames(arpt_demand, demand_keys) : \A j \in {1, 2} :
            \A i \in Resolve(nas_flights_mg, JoinPrefix(j) \o X) :
                \A r \in DOMAIN nas_flights_mg.rows :
                    /\ nas_flights_mg.rows[r].v[i] # Null
                    /\ JoinSources(j, nas_flights_mg.rows[r].fid) = {}
                          => nas_flights_mg.rows[r].v[i] = Zero

\* C2 amended: in the output, for every demand attribute column X of a numeric
\* type, ORIGIN_X and DEST_X are columns that hold no null, and a flight with
\* no demand row for its origin (destination) and departure (arrival) quarter
\* hour has 0 in ORIGIN_X (DEST_X).  (fillna(0) leaves the nulls of a column
\* of another type, a string say, where they are.)
C2_NoNullNumericDemandColumn ==
    pc = "done" =>
        \A X \in NumericAttrNames(arpt_demand, demand_keys) : \A j \in {1, 2} :
            /\ Resolvable(nas_flights_mg, JoinPrefix(j) \o X)
            /\ \A r \in DOMAIN nas_flights_mg.rows :
                  /\ ValueAt(nas_flights_mg, r, JoinPrefix(j) \o X) # Null
                  /\ JoinSources(j, nas_flights_mg.rows[r].fid) = {}
                        => ValueAt(nas_flights_mg, r, JoinPrefix(j) \o X) = Zero

\* A written flight whose origin has a demand row and whose destination has
\* none: DEST_A was filled with 0, ORIGIN_A holds the demand value.
C2_Witness ==
    /\ pc = "done"
    /\ \E r \in DOMAIN nas_flights_mg.rows :
          /\ JoinSources(2, nas_flights_mg.rows[r].fid) = {}
          /\ JoinSources(1, nas_flights_mg.rows[r].fid) # {}
          /\ ValueAt(nas_flights_mg, r, "DEST_A") = Zero
          /\ ValueAt(nas_flights_mg, r, "ORIGIN_A") \notin {Zero, Null}

\* C3: once the weather joins and their renames have run, and through the
\* fill, the drop and the write, every column that came from the weather
\* table is called ORIGIN_W or DEST_W after its column W, and each of its
\* cells holds the value of W in a weather row of the flight's airport and
\* hour (null when that value is null), or null when there is no such row:
\* the zero fill changes none of them.
C3_WeatherValuesUnaltered ==
    \A j \in {3, 4} :
        Renamed(j) =>
            \A i \in JoinCols(j) :
                /\ nas_flights_mg.cols[i].name = JoinPrefix(j) \o nas_flights_mg.cols[i].orig
                /\ \A r \in DOMAIN nas_flights_mg.rows :
                      LET S == JoinSources(j, nas_flights_mg.rows[r].fid)
                      IN  IF S = {}
                          THEN nas_flights_mg.rows[r].v[i] = Null
                          ELSE \E s \in S : nas_flights_mg.rows[r].v[i] = SourceCell(j, s, i)

\* A written flight with a weather value at its origin, no weather row at its
\* destination, and a demand column that the fill did set to 0.
C3_Witness ==
    /\ pc = "done"
    /\ \E r \in DOMAIN nas_flights_mg.rows :
          /\ JoinSources(3, nas_flights_mg.rows[r].fid) # {}
          /\ JoinSources(4, nas_flights_mg.rows[r].fid) = {}
          /\ ValueAt(nas_flights_mg, r, "ORIGIN_W") \notin {Null, Zero}
          /\ ValueAt(nas_flights_mg, r, "DEST_W") = Null
          /\ ValueAt(nas_flights_mg, r, "DEST_A") = Zero

\* A merged cell holds src, or the 0 the fill put in place of a null src.
C8_Cell(j, i, r, src) ==
    \/ nas_flights_mg.rows[r].v[i] = src
    \/ /\ src = Null
       /\ nas_flights_mg.rows[r].v[i] = Zero
       /\ Filled /\ j \in {1, 2} /\ nas_flights_mg.cols[i].type = "num"

\* C8: from the moment a join has run, through every later join, rename, the
\* fill and the drop, the cells it attached to a flight row are all those of
\* one row of its table with the join's key pair: ARPT_NAME = ORIGIN and
\* DT_LOCAL_QTHR = DEP_TIME_DT_LOCAL_QTHR for the origin demand,
\* ARPT_NAME = DEST and DT_LOCAL_QTHR = ARR_TIME_DT_LOCAL_QTHR for the
\* destination demand, ARPT_NAME = ORIGIN and DT_LOCAL_HR =
\* DEP_TIME_DT_LOCAL_HR for the origin weather, ARPT_NAME = DEST and
\* DT_LOCAL_HR = ARR_TIME_DT_LOCAL_HR for the destination weather (a null
\* of a numeric demand column reads 0 after the fill); with no such row they
\* are null (0 after the fill).  Until the drop that follows the fourth
\* join the flight's four bucket columns are still in the table, unpruned.
C8_JoinsUseTheirKeys ==
    /\ \A j \in 1..4 :
          Joined(j) =>
              \A r \in DOMAIN nas_flights_mg.rows :
                  LET S == JoinSources(j, nas_flights_mg.rows[r].fid)
                  IN  IF S = {}
                      THEN \A i \in JoinCols(j) : C8_Cell(j, i, r, Null)
                      ELSE \E s \in S : \A i \in JoinCols(j) : C8_Cell(j, i, r, SourceCell(j, s, i))
    /\ (Joined(1) /\ Pos(At) <= Pos("drop")) =>
          \A n \in {"DEP_TIME_DT_LOCAL_QTHR", "ARR_TIME_DT_LOCAL_QTHR",
                    "DEP_TIME_DT_LOCAL_HR", "ARR_TIME_DT_LOCAL_HR"} :
              \E i \in DOMAIN nas_flights_mg.cols :
                  /\ nas_flights_mg.cols[i].tbl = "nas_flights"
                  /\ nas_flights_mg.cols[i].orig = n
                  /\ \A r \in DOMAIN nas_flights_mg.rows :
                        nas_flights_mg.rows[r].v[i]
                            = ValueAt(nas_flights, nas_flights_mg.rows[r].fid, n)

\* A written flight that found a row in each of the four joins.
C8_Witness ==
    /\ pc = "done"
    /\ \E r \in DOMAIN nas_flights_mg.rows :
          /\ \A j \in 1..4 : JoinSources(j, nas_flights_mg.rows[r].fid) # {}
          /\ \A n \in {"ORIGIN_A", "DEST_A", "ORIGIN_W", "DEST_W"} :
                ValueAt(nas_flights_mg, r, n) \notin {Null, Zero}
          /\ ValueAt(nas_flights_mg, r, "ORIGIN_A") # ValueAt(nas_flights_mg, r, "DEST_A")
          /\ ValueAt(nas_flights_mg, r, "ORIGIN_W") # ValueAt(nas_flights_mg, r, "DEST_W")

\* The names C5 lists: the eight local-time columns of the flight table and
\* the attribute tables' key columns, bare or under a directional prefix.
LeakageNames ==
    {p \o n : p \in {"ARR_", "DEP_"},
              n \in {"TIME_DT_LOCAL", "TIME_DT_LOCAL_DAY", "TIME_DT_LOCAL_HR", "TIME_DT_LOCAL_QTHR"}}
    \cup {p \o n : p \in {"", "ORIGIN_", "DEST_"},
                   n \in {"ARPT_NAME", "DT_LOCAL_QTHR", "DT_LOCAL_HR"}}

\* C5: the table that is written, and every partition of the output
\* directory after the write, has no column of a name C5 lists, and no
\* column read from an attribute table's ARPT_NAME, DT_LOCAL_QTHR or
\* DT_LOCAL_HR.
C5_NoLeakageColumn ==
    pc = "done" =>
        /\ \A i \in DOMAIN nas_flights_mg.cols :
              /\ nas_flights_mg.cols[i].name \notin LeakageNames
              /\ nas_flights_mg.cols[i].tbl # "nas_flights"
                    => nas_flights_mg.cols[i].orig \notin {"ARPT_NAME", "DT_LOCAL_QTHR", "DT_LOCAL_HR"}
        /\ \A part \in etl_output_dir.parts : Range(part.cols) \cap LeakageNames = {}

\* A run that wrote a partition from a demand table that has a DT_LOCAL_HR
\* column beside its key DT_LOCAL_QTHR.
C5_Witness ==
    /\ pc = "done"
    /\ etl_output_dir.parts # {}
    /\ Resolvable(arpt_demand, "DT_LOCAL_HR")
    /\ Resolvable(nas_flights, "DEP_TIME_DT_LOCAL_QTHR")

\* C4 as stated: in the table that is written, for every column X of the
\* demand or the weather table other than its keys and buckets, exactly one
\* column is called ORIGIN_X and exactly one DEST_X, and no column that came
\* from an attribute table is left under its bare name; whatever names the
\* three tables share.
C4_EachAttributeOncePerPrefix ==
    Final =>
        /\ \A X \in AttrNames(arpt_demand, demand_keys \cup weather_keys)
                    \cup AttrNames(arpt_weather, demand_keys \cup weather_keys) :
              /\ Resolvable(nas_flights_mg, "ORIGIN_" \o X)
              /\ Resolvable(nas_flights_mg, "DEST_" \o X)
        /\ \A i \in DOMAIN nas_flights_mg.cols :
              nas_flights_mg.cols[i].tbl # "nas_flights"
                  => nas_flights_mg.cols[i].name # nas_flights_mg.cols[i].orig

\* C10 as stated: once the flight table is joined, and through every rename,
\* the fill and the drop, each of its columns other than the eight local-time
\* ones is in the merged table under its own name with the flight row's value
\* in every row, whatever columns the attribute tables have.
C10_FlightColumnsKept ==
    Joined(1) =>
        \A c \in DOMAIN nas_flights.cols :
            nas_flights.cols[c].name \notin Range(ad_remove_cols) =>
                \E i \in DOMAIN nas_flights_mg.cols :
                    /\ nas_flights_mg.cols[i].name = nas_flights.cols[c].name
                    /\ nas_flights_mg.cols[i].tbl = "nas_flights"
                    /\ nas_flights_mg.cols[i].orig = nas_flights.cols[c].name
                    /\ \A r \in DOMAIN nas_flights_mg.rows :
                          nas_flights_mg.rows[r].v[i]
                              = nas_flights.rows[nas_flights_mg.rows[r].fid].v[c]

\* C6 as stated: a run whose rmtree raised does not stop in the set-up.
C6_RmtreeFailureTolerated ==
    rmtree_failed => ~(pc = "failed" /\ failed_at \in {"makedirs", "rmtree", "mkdir"})

C9_OutputEmptyUntilWrite ==
    (Pos(At) >= Pos("read_arpt_demand") /\ Pos(At) <= Pos("write"))
        => etl_output_dir = [exists |-> TRUE, parts |-> {}]

\* A later run stopped at a load: the partitions an earlier run wrote are gone.
C9_Witness ==
    /\ pc = "failed"
    /\ failed_at \in {"read_arpt_demand", "read_arpt_weather", "read_nas_flights"}
    /\ \E o \in last_output : o.parts # {}
    /\ etl_output_dir = [exists |-> TRUE, parts |-> {}]

====
